---- MODULE Spec2Model ----
(***************************************************************************)
(* State-machine model of examples/pathtracer/pathtracer.py:               *)
(*   - Scene.__init__ / build_blas / build_tlas  (specification SceneSpec) *)
(*   - App.on_*_event / App.main_loop            (specification Spec)      *)
(* The device queue is a FIFO of submitted command buffers that the GPU    *)
(* retires asynchronously (GpuComplete); device.wait() drains it.          *)
(***************************************************************************)
EXTENDS Integers, Sequences, FiniteSets, TLC

\* ------------------------------------------------------------------ bounds
MaxMeshes == 2
NumMaterials == 2
NumTransforms == 2
MaxInstances == 2
MaxId == 2
DemoCubes == 1
MaxFrame == 3
MaxInFlight == 2
MaxRebuilds == 1

\* ------------------------------------------------------- program constants
NoneVal == [none |-> TRUE]

\* Mesh.create_quad: 4 vertex rows, 2 index rows (triangles)
QuadMesh == [vertex_rows |-> 4, index_rows |-> 2]
\* variant: a cube with one triangle per face
CubeMeshSixTriangles == [vertex_rows |-> 24, index_rows |-> 6]

\* Mesh.create_cube: 24 vertex rows, 12 index rows (triangles)
CubeMesh == [vertex_rows |-> 24, index_rows |-> 12]
MeshKinds == {QuadMesh, CubeMesh}

\* Mesh.vertex_count / triangle_count / index_count properties
MeshVertexCount(mesh) == mesh.vertex_rows
MeshTriangleCount(mesh) == mesh.index_rows

\* variant: index_count is the number of index rows
MeshIndexCountRows(mesh) == MeshTriangleCount(mesh)

MeshIndexCount(mesh) == MeshTriangleCount(mesh) * 3

\* struct.pack format "I": an unsigned 32-bit integer, anything else raises
\* (the upper limit 2^32 - 1 lies above every id of the model)
PacksAsUInt32(x) == x >= 0

\* Python list indexing xs[i]: valid for -len <= i < len (negative wraps)
PyIndexOk(i, len) == i >= -len /\ i < len
PyIndex(i, len) == IF i < 0 THEN i + len + 1 ELSE i + 1

\* Transform.matrix of the k-th transform of a stage: a 4x4 matrix given as
\* four rows; translation k in the last column distinguishes the transforms
TransformMatrix(k) ==
    << <<1, 0, 0, k>>, <<0, 1, 0, k>>, <<0, 0, 1, k>>, <<0, 0, 0, 1>> >>

\* spy.float3x4(m) of a float4x4: the upper three rows
Float3x4(m) == SubSeq(m, 1, 3)

\* ------------------------------------------------------------------- state
VARIABLES
    stage,           \* Stage: meshes, materials, transforms, instances
    scene_pc,        \* position inside Scene.__init__
    scene_error,     \* exception raised by Scene.__init__ ("none" if none)
    mesh_descs,      \* Scene.mesh_descs
    instance_descs,  \* Scene.instance_descs
    vertex_buffer,   \* Scene.vertex_buffer: [rows] (NoneVal before creation)
    index_buffer,    \* Scene.index_buffer: [rows] (NoneVal before creation)
    transforms,      \* Scene.transforms
    blases,          \* Scene.blases
    instance_list,   \* build_tlas local instance_list: slots, NoneVal if empty
    next_instance,   \* build_tlas loop: instance_id of the next write
    tlas_calls,      \* number of build_tlas calls entered so far
    tlas,            \* Scene.tlas
    rebuilt,         \* value returned by a build_tlas call after __init__
    next_handle,     \* device: next acceleration-structure handle
    pending,         \* device queue: submitted, unfinished command buffers
    pc,              \* position inside App.main_loop
    frame,           \* main_loop local frame
    should_close,    \* window.should_close()
    surface_config,  \* surface.config (NoneVal when unconfigured)
    surface_texture, \* main_loop local surface_texture
    output_texture,  \* App.output_texture
    render_texture,  \* App.render_texture
    accum_texture,   \* App.accum_texture
    accumulator,     \* Accumulator.accumulator
    key_state,       \* CameraController.key_state
    move_delta,      \* CameraController.move_delta
    mouse_down,      \* CameraController.mouse_down
    mouse_pos,       \* CameraController.mouse_pos
    rotate_delta,    \* CameraController.rotate_delta
    changed,         \* value returned by CameraController.update
    encoder,         \* commands recorded in main_loop's command_encoder
    iter_log,        \* history: operations issued by the current iteration
    iter_start,      \* history: textures held when the iteration began
    iter_skipped,    \* history: the current iteration took a continue
    cam_changed,     \* history: update returned True since the last render
    change_skipped,  \* history: such an iteration was skipped since then
    last_frame,      \* history: frame traced by the last render (-1: none)
    waited           \* history: device.wait() ran since the last submit

scene_vars == <<stage, scene_pc, scene_error, mesh_descs, instance_descs,
                vertex_buffer, index_buffer, transforms, blases,
                instance_list, next_instance, tlas_calls, tlas, rebuilt,
                next_handle>>

input_vars == <<key_state, move_delta, mouse_down, mouse_pos, rotate_delta>>

texture_vars == <<output_texture, render_texture, accum_texture>>

history_vars == <<iter_log, iter_start, iter_skipped, cam_changed,
                  change_skipped,
                  last_frame, waited>>

loop_vars == <<pc, frame, should_close, surface_config, surface_texture,
               output_texture, render_texture, accum_texture, accumulator,
               key_state, move_delta, mouse_down, mouse_pos, rotate_delta,
               changed, encoder, iter_log, iter_start, iter_skipped,
               cam_changed, change_skipped, last_frame, waited>>

vars == <<scene_vars, pending, loop_vars>>

\* --------------------------------------------------------- pure operators
\* variant: the index offset counts triangles instead of indices
MeshDescTriangleOffset(mesh, vcount, icount) ==
    [vertex_count |-> MeshVertexCount(mesh),
     index_count |-> MeshIndexCount(mesh),
     vertex_offset |-> vcount,
     index_offset |-> icount \div 3]

\* lines 383-388: the descriptor of a mesh, given the running counts
MeshDesc(mesh, vcount, icount) ==
    [vertex_count |-> MeshVertexCount(mesh),
     index_count |-> MeshIndexCount(mesh),
     vertex_offset |-> vcount,
     index_offset |-> icount]

\* lines 377-391: forward scan producing the mesh descriptors
RECURSIVE ScanMeshDescs(_, _, _, _, _)
ScanMeshDescs(meshes, k, vcount, icount, acc) ==
    IF k > Len(meshes) THEN [descs |-> acc, vertex_count |-> vcount,
                             index_count |-> icount]
    ELSE ScanMeshDescs(meshes, k + 1,
            vcount + MeshVertexCount(meshes[k]),
            icount + MeshIndexCount(meshes[k]),
            Append(acc, MeshDesc(meshes[k], vcount, icount)))

\* lines 393-396
MakeInstanceDescs(instances) ==
    [i \in 1..Len(instances) |->
        [mesh_id |-> instances[i][1], material_id |-> instances[i][2],
         transform_id |-> instances[i][3]]]

\* np.concatenate(arrays, axis=0).shape[0], arrays given by their row counts
RECURSIVE ConcatRows(_)
ConcatRows(rows) ==
    IF rows = <<>> THEN 0 ELSE Head(rows) + ConcatRows(Tail(rows))

\* InstanceDesc.pack / MeshDesc.pack succeed only on unsigned 32-bit fields
InstanceDescPacks(d) ==
    PacksAsUInt32(d.mesh_id) /\ PacksAsUInt32(d.material_id)
        /\ PacksAsUInt32(d.transform_id)

\* a command buffer on the device queue
BuildCmd(kind, dst) == [kind |-> kind, dst |-> dst, texs |-> {}]

\* lines 505-516: the record build_tlas writes for instance instance_id
\* (zero-based); the caller has checked that both lookups succeed
TlasInstanceRecord(instance_id, desc, xforms, bl) ==
    [transform |-> Float3x4(xforms[PyIndex(desc.transform_id, Len(xforms))]),
     instance_id |-> instance_id,
     instance_mask |-> 255,
     instance_contribution_to_hit_group_index |-> 0,
     acceleration_structure |-> bl[PyIndex(desc.mesh_id, Len(bl))]]

\* ------------------------------------------------ Scene.__init__ actions
\* lines 377-396: mesh descriptors and instance descriptors
PrepareDescs ==
    /\ scene_pc = "descs"
    /\ mesh_descs' = ScanMeshDescs(stage.meshes, 1, 0, 0, <<>>).descs
    /\ instance_descs' = MakeInstanceDescs(stage.instances)
    /\ scene_pc' = "buffers"
    /\ UNCHANGED <<stage, scene_error, vertex_buffer, index_buffer,
                   transforms, blases, instance_list, next_instance,
                   tlas_calls, tlas, rebuilt, next_handle, pending>>
    /\ UNCHANGED loop_vars

\* lines 398-432: concatenate, assert, create the geometry and descriptor
\* buffers; packing the instance descriptors raises on a negative id
CreateBuffers ==
    /\ scene_pc = "buffers"
    /\ LET scan == ScanMeshDescs(stage.meshes, 1, 0, 0, <<>>)
           vrows == ConcatRows([k \in 1..Len(stage.meshes) |->
                                  stage.meshes[k].vertex_rows])
           irows == ConcatRows([k \in 1..Len(stage.meshes) |->
                                  stage.meshes[k].index_rows])
       IN  IF vrows # scan.vertex_count \/ irows # scan.index_count \div 3
           THEN /\ scene_error' = "AssertionError"
                /\ scene_pc' = "error"
                /\ UNCHANGED <<vertex_buffer, index_buffer>>
           ELSE /\ vertex_buffer' = [rows |-> vrows]
                /\ index_buffer' = [rows |-> irows]
                /\ IF \A i \in 1..Len(instance_descs) :
                          InstanceDescPacks(instance_descs[i])
                   THEN scene_pc' = "transforms" /\ UNCHANGED scene_error
                   ELSE scene_pc' = "error" /\ scene_error' = "struct.error"
    /\ UNCHANGED <<stage, mesh_descs, instance_descs, transforms, blases,
                   instance_list, next_instance, tlas_calls, tlas, rebuilt,
                   next_handle, pending>>
    /\ UNCHANGED loop_vars

\* lines 434-448
PrepareTransforms ==
    /\ scene_pc = "transforms"
    /\ transforms' = stage.transforms
    /\ scene_pc' = "blases"
    /\ UNCHANGED <<stage, scene_error, mesh_descs, instance_descs,
                   vertex_buffer, index_buffer, blases, instance_list,
                   next_instance, tlas_calls, tlas, rebuilt, next_handle,
                   pending>>
    /\ UNCHANGED loop_vars

\* lines 451, 456-499: build_blas for the next mesh descriptor; the build is
\* submitted to the device queue and not waited for
BuildBlas ==
    /\ scene_pc = "blases"
    /\ Len(blases) < Len(mesh_descs)
    /\ blases' = Append(blases, next_handle)
    /\ next_handle' = next_handle + 1
    /\ pending' = Append(pending, BuildCmd("blas", next_handle))
    /\ UNCHANGED <<stage, scene_pc, scene_error, mesh_descs, instance_descs,
                   vertex_buffer, index_buffer, transforms, instance_list,
                   next_instance, tlas_calls, tlas, rebuilt>>
    /\ UNCHANGED loop_vars

\* variant: build_tlas is entered before the BLAS list is complete
BlasesBuiltEarly(bl, descs) == TRUE

\* line 451: the list comprehension has visited every mesh descriptor
BlasesBuilt(bl, descs) == Len(bl) = Len(descs)

\* variant: the list of the previous call is kept and grown
NewInstanceListGrown(n) == instance_list \o [i \in 1..n |-> NoneVal]

\* lines 502-504: a new instance list of n empty slots
NewInstanceList(n) == [i \in 1..n |-> NoneVal]

\* variant: every record is written to the first slot
WriteSlotFirst(list, slot, record) == [list EXCEPT ![1] = record]

\* line 506: instance_list.write(slot, record), slot zero-based
WriteSlot(list, slot, record) == [list EXCEPT ![slot + 1] = record]

\* line 451 done, lines 454, 502-504: enter build_tlas, create the list
BeginTlas ==
    /\ scene_pc = "blases"
    /\ BlasesBuilt(blases, mesh_descs)
    /\ instance_list' = NewInstanceList(Len(instance_descs))
    /\ next_instance' = 0
    /\ tlas_calls' = tlas_calls + 1
    /\ scene_pc' = "tlas_write"
    /\ UNCHANGED <<stage, scene_error, mesh_descs, instance_descs,
                   vertex_buffer, index_buffer, transforms, blases, tlas,
                   rebuilt, next_handle, pending>>
    /\ UNCHANGED loop_vars

\* lines 501-504: build_tlas is called again on the constructed Scene
RebuildTlas ==
    /\ scene_pc = "done"
    /\ tlas_calls <= MaxRebuilds
    /\ instance_list' = NewInstanceList(Len(instance_descs))
    /\ next_instance' = 0
    /\ tlas_calls' = tlas_calls + 1
    /\ scene_pc' = "tlas_write"
    /\ UNCHANGED <<stage, scene_error, mesh_descs, instance_descs,
                   vertex_buffer, index_buffer, transforms, blases, tlas,
                   rebuilt, next_handle, pending>>
    /\ UNCHANGED loop_vars

\* lines 505-516: write the next instance record; either list lookup raises
\* IndexError on an index outside the list
WriteInstance ==
    /\ scene_pc = "tlas_write"
    /\ next_instance < Len(instance_descs)
    /\ LET d == instance_descs[next_instance + 1]
       IN  IF PyIndexOk(d.transform_id, Len(transforms))
                /\ PyIndexOk(d.mesh_id, Len(blases))
           THEN /\ instance_list' = WriteSlot(instance_list, next_instance,
                        TlasInstanceRecord(next_instance, d, transforms,
                                           blases))
                /\ next_instance' = next_instance + 1
                /\ UNCHANGED <<scene_pc, scene_error>>
           ELSE /\ scene_pc' = "error"
                /\ scene_error' = "IndexError"
                /\ UNCHANGED <<instance_list, next_instance>>
    /\ UNCHANGED <<stage, mesh_descs, instance_descs, vertex_buffer,
                   index_buffer, transforms, blases, tlas_calls, tlas,
                   rebuilt, next_handle, pending>>
    /\ UNCHANGED loop_vars

\* lines 518-543: create the TLAS, submit its build, return it; line 454:
\* the call made by __init__ stores the returned TLAS in Scene.tlas
SubmitTlas ==
    /\ scene_pc = "tlas_write"
    /\ next_instance = Len(instance_descs)
    /\ LET result == [handle |-> next_handle, instances |-> instance_list]
       IN  IF tlas_calls = 1
           THEN tlas' = result /\ UNCHANGED rebuilt
           ELSE rebuilt' = result /\ UNCHANGED tlas
    /\ next_handle' = next_handle + 1
    /\ pending' = Append(pending, BuildCmd("tlas", next_handle))
    /\ scene_pc' = "done"
    /\ UNCHANGED <<stage, scene_error, mesh_descs, instance_descs,
                   vertex_buffer, index_buffer, transforms, blases,
                   instance_list, next_instance, tlas_calls>>
    /\ UNCHANGED loop_vars

\* ---------------------------------------------------- stage inputs, Init
\* Stage.add_transform: the k-th transform added (zero-based)
StageTransforms(n) == [k \in 1..n |-> TransformMatrix(k - 1)]

IdRange == -1..MaxId

\* instance triples (mesh_id, material_id, transform_id) with at most one
\* id different from 0: valid ones, and each way of being out of range
InstanceTriples ==
    {t \in IdRange \X IdRange \X IdRange :
        Cardinality({i \in 1..3 : t[i] # 0}) <= 1}

RECURSIVE SeqsUpTo(_, _)
SeqsUpTo(S, n) ==
    IF n = 0 THEN {<<>>}
    ELSE LET shorter == SeqsUpTo(S, n - 1)
         IN  shorter \cup {Append(q, x) : q \in shorter, x \in S}

\* a stage: up to MaxMeshes meshes, NumMaterials materials, NumTransforms
\* transforms and up to MaxInstances instances
MakeStage(ms, is) ==
    [meshes |-> ms, materials |-> NumMaterials,
     transforms |-> StageTransforms(NumTransforms), instances |-> is]

\* Stage.demo, lines 295-324, with DemoCubes cubes instead of 1000
DemoStage ==
    [meshes |-> <<QuadMesh, CubeMesh>>,
     materials |-> 1 + 10,
     transforms |-> StageTransforms(1 + DemoCubes),
     instances |-> [i \in 1..(1 + DemoCubes) |->
                      IF i = 1 THEN <<0, 0, 0>>
                      ELSE <<1, 1 + ((i - 2) % 10), i - 1>>]]

\* the main loop has not started
LoopIdle ==
    /\ pc = "loop"
    /\ frame = 0
    /\ should_close = FALSE
    /\ surface_config = [width |-> 1920, height |-> 1080]
    /\ surface_texture = NoneVal
    /\ output_texture = NoneVal
    /\ render_texture = NoneVal
    /\ accum_texture = NoneVal
    /\ accumulator = NoneVal
    /\ key_state = [k \in {"a", "d", "e", "q", "w", "s"} |-> FALSE]
    /\ move_delta = <<0, 0, 0>>
    /\ mouse_down = FALSE
    /\ mouse_pos = <<0, 0>>
    /\ rotate_delta = <<0, 0>>
    /\ changed = FALSE
    /\ encoder = <<>>
    /\ iter_log = <<>>
    /\ iter_start = [output_texture |-> NoneVal, render_texture |-> NoneVal,
                     accum_texture |-> NoneVal, accumulator |-> NoneVal]
    /\ iter_skipped = FALSE
    /\ cam_changed = FALSE
    /\ change_skipped = FALSE
    /\ last_frame = -1
    /\ waited = FALSE

\* Scene(device, stage) is entered
SceneInit ==
    /\ \E ms \in SeqsUpTo(MeshKinds, MaxMeshes) \ {<<>>} :
          \E is \in SeqsUpTo(InstanceTriples, MaxInstances) :
              stage = MakeStage(ms, is)
    /\ scene_pc = "descs"
    /\ scene_error = "none"
    /\ mesh_descs = <<>>
    /\ instance_descs = <<>>
    /\ vertex_buffer = NoneVal
    /\ index_buffer = NoneVal
    /\ transforms = <<>>
    /\ blases = <<>>
    /\ instance_list = <<>>
    /\ next_instance = 0
    /\ tlas_calls = 0
    /\ tlas = NoneVal
    /\ rebuilt = NoneVal
    /\ next_handle = 1
    /\ pending = <<>>
    /\ LoopIdle

\* the device retires the oldest submitted command buffer
GpuComplete ==
    /\ pending # <<>>
    /\ pending' = Tail(pending)
    /\ UNCHANGED <<scene_vars, loop_vars>>

SceneNext ==
    \/ PrepareDescs
    \/ CreateBuffers
    \/ PrepareTransforms
    \/ BuildBlas
    \/ BeginTlas
    \/ WriteInstance
    \/ SubmitTlas
    \/ RebuildTlas
    \/ GpuComplete

SceneSpec == SceneInit /\ [][SceneNext]_vars

\* ------------------------------------------------------- input handling
\* CameraController.MOVE_KEYS, lines 49-56
MOVE_KEYS ==
    [k \in {"a", "d", "e", "q", "w", "s"} |->
        CASE k = "a" -> <<-1, 0, 0>>
          [] k = "d" -> <<1, 0, 0>>
          [] k = "e" -> <<0, 1, 0>>
          [] k = "q" -> <<0, -1, 0>>
          [] k = "w" -> <<0, 0, 1>>
          [] k = "s" -> <<0, 0, -1>>]

Vec3Add(u, v) == <<u[1] + v[1], u[2] + v[2], u[3] + v[3]>>
Vec2Sub(u, v) == <<u[1] - v[1], u[2] - v[2]>>

\* lines 119-122: sum of the vectors of the keys held down
RECURSIVE SumHeldKeys(_, _)
SumHeldKeys(state, keys) ==
    IF keys = {} THEN <<0, 0, 0>>
    ELSE LET k == CHOOSE x \in keys : TRUE
             rest == SumHeldKeys(state, keys \ {k})
         IN  IF state[k] THEN Vec3Add(rest, MOVE_KEYS[k]) ELSE rest

\* events the window delivers
KeyEvents ==
    [type : {"key_press", "key_release", "key_repeat"},
     key : {"a", "d", "escape"}]
MouseEvents ==
    [type : {"button_down", "button_up", "move"}, button : {"left", "right"},
     pos : {<<0, 0>>, <<3, 0>>}]
ResizeEvents == {<<1920, 1080>>, <<1280, 720>>, <<0, 0>>, <<1280, 0>>}

\* lines 712-728 and 112-122: App.on_keyboard_event, which ends in
\* CameraController.on_keyboard_event
OnKeyboardEvent(event) ==
    /\ pc = "events"
    /\ should_close' = IF event.type = "key_press" /\ event.key = "escape"
                       THEN TRUE ELSE should_close
    /\ LET down == event.type = "key_press"
           ks == IF event.type \in {"key_press", "key_release"}
                    /\ event.key \in DOMAIN MOVE_KEYS
                 THEN [key_state EXCEPT ![event.key] = down]
                 ELSE key_state
       IN  /\ key_state' = ks
           /\ move_delta' = SumHeldKeys(ks, DOMAIN MOVE_KEYS)
    /\ UNCHANGED <<scene_vars, pending, pc, frame, surface_config,
                   surface_texture, texture_vars, accumulator, mouse_down,
                   mouse_pos, rotate_delta, changed, encoder, history_vars>>

\* lines 730-731 and 124-134: App.on_mouse_event
OnMouseEvent(event) ==
    /\ pc = "events"
    /\ LET down == IF event.type = "button_up" /\ event.button = "left"
                   THEN FALSE
                   ELSE IF event.type = "button_down" /\ event.button = "left"
                   THEN TRUE ELSE mouse_down
       IN  /\ mouse_down' = down
           /\ IF event.type = "move"
              THEN /\ rotate_delta' = IF down THEN Vec2Sub(event.pos, mouse_pos)
                                      ELSE <<0, 0>>
                   /\ mouse_pos' = event.pos
              ELSE /\ rotate_delta' = <<0, 0>>
                   /\ UNCHANGED mouse_pos
    /\ UNCHANGED <<scene_vars, pending, pc, frame, should_close,
                   surface_config, surface_texture, texture_vars, accumulator,
                   key_state, move_delta, changed, encoder, history_vars>>

\* variant: on_resize without the device wait
QueueAfterNoWait(queue) == queue

\* device.wait(): returns when the device has retired all submitted work
QueueAfterWait(queue) == <<>>

\* lines 735-738: surface.configure or surface.unconfigure
ConfigAfterResize(width, height) ==
    IF width > 0 /\ height > 0
    THEN [width |-> width, height |-> height]
    ELSE NoneVal

\* lines 733-738: App.on_resize
OnResize(width, height) ==
    /\ pc = "events"
    /\ pending' = QueueAfterWait(pending)
    /\ waited' = TRUE
    /\ surface_config' = ConfigAfterResize(width, height)
    /\ UNCHANGED <<scene_vars, pc, frame, should_close, surface_texture,
                   texture_vars, accumulator, input_vars, changed, encoder,
                   iter_log, iter_start, iter_skipped,
                   cam_changed, change_skipped, last_frame>>

\* ------------------------------------------------------- App.main_loop
\* variant: tone mapping is issued before accumulation
StepAfterSwapped(step) ==
    CASE step = "textures" -> "trace"
      [] step = "trace" -> "tonemap"
      [] step = "tonemap" -> "accumulate"
      [] step = "accumulate" -> "blit"
      [] step = "blit" -> "submit"
      [] step = "submit" -> "present"
      [] step = "present" -> "inc"
      [] step = "inc" -> "loop"

\* lines 787-799: the statement that follows each statement of a frame
StepAfter(step) ==
    CASE step = "textures" -> "trace"
      [] step = "trace" -> "accumulate"
      [] step = "accumulate" -> "tonemap"
      [] step = "tonemap" -> "blit"
      [] step = "blit" -> "submit"
      [] step = "submit" -> "present"
      [] step = "present" -> "inc"
      [] step = "inc" -> "loop"

Snapshot ==
    [output_texture |-> output_texture, render_texture |-> render_texture,
     accum_texture |-> accum_texture, accumulator |-> accumulator]

\* line 743, loop condition true: the next iteration begins (744-746);
\* the unbounded counter is cut off at MaxFrame
LoopEnter ==
    /\ pc = "loop"
    /\ ~should_close
    /\ frame < MaxFrame
    /\ pc' = "events"
    /\ iter_log' = <<>>
    /\ iter_start' = Snapshot
    /\ iter_skipped' = FALSE
    /\ cam_changed' = IF iter_log # <<>> THEN FALSE ELSE cam_changed
    /\ change_skipped' = IF iter_log # <<>> THEN FALSE ELSE change_skipped
    /\ last_frame' = IF iter_log # <<>> THEN iter_log[1].frame ELSE last_frame
    /\ UNCHANGED <<scene_vars, pending, frame, should_close, surface_config,
                   surface_texture, texture_vars, accumulator, input_vars,
                   changed, encoder, waited>>

\* line 743 false, line 801: leave the loop and wait for the device
LoopExit ==
    /\ pc = "loop"
    /\ should_close
    /\ pending' = QueueAfterWait(pending)
    /\ waited' = TRUE
    /\ pc' = "done"
    /\ UNCHANGED <<scene_vars, frame, should_close, surface_config,
                   surface_texture, texture_vars, accumulator, input_vars,
                   changed, encoder, iter_log, iter_start, iter_skipped,
                   cam_changed, change_skipped, last_frame>>

\* line 747: process_events has delivered every queued event
ProcessEventsDone ==
    /\ pc = "events"
    /\ pc' = "update"
    /\ UNCHANGED <<scene_vars, pending, frame, should_close, surface_config,
                   surface_texture, texture_vars, accumulator, input_vars,
                   changed, encoder, history_vars>>

\* lines 73-110: the value CameraController.update returns
UpdateChanged(move, rotate) == move # <<0, 0, 0>> \/ rotate # <<0, 0>>

\* variant: the counter is not restarted by a camera change
FrameAfterUpdateKept(c, f) == f

\* variant: the counter is restarted only when the frame will be rendered
FrameAfterUpdateIfConfigured(c, f) ==
    IF c /\ surface_config # NoneVal THEN 0 ELSE f

\* lines 749-750: a changed camera restarts the frame counter
FrameAfterUpdate(c, f) == IF c THEN 0 ELSE f

\* lines 749-750 with CameraController.update
CameraUpdate ==
    /\ pc = "update"
    /\ LET c == UpdateChanged(move_delta, rotate_delta)
       IN  /\ changed' = c
           /\ frame' = FrameAfterUpdate(c, frame)
           /\ cam_changed' = (cam_changed \/ c)
    /\ rotate_delta' = <<0, 0>>
    /\ pc' = "config"
    /\ UNCHANGED <<scene_vars, pending, should_close, surface_config,
                   surface_texture, texture_vars, accumulator, key_state,
                   move_delta, mouse_down, mouse_pos, encoder, iter_log,
                   iter_start, iter_skipped, change_skipped, last_frame,
                   waited>>

\* variant: the configuration check is missing
UnconfiguredIgnored(config) == FALSE

\* line 752: not self.surface.config
Unconfigured(config) == config = NoneVal

\* lines 752-753
CheckConfig ==
    /\ pc = "config"
    /\ IF Unconfigured(surface_config)
       THEN /\ pc' = "loop"
            /\ iter_skipped' = TRUE
            /\ change_skipped' = (change_skipped \/ changed)
       ELSE /\ pc' = "acquire"
            /\ UNCHANGED <<iter_skipped, change_skipped>>
    /\ UNCHANGED <<scene_vars, pending, frame, should_close, surface_config,
                   surface_texture, texture_vars, accumulator, input_vars,
                   changed, encoder, iter_log, iter_start, cam_changed,
                   last_frame, waited>>

FramesInFlight == Cardinality({i \in 1..Len(pending) : pending[i].kind = "frame"})

\* lines 754-756: acquire_next_image returns no image, or (once an image of
\* the swapchain is free, at most MaxInFlight frames being queued) an image
\* of the configured size
AcquireImage ==
    /\ pc = "acquire"
    /\ \/ /\ surface_texture' = NoneVal
          /\ pc' = "loop"
          /\ iter_skipped' = TRUE
          /\ change_skipped' = (change_skipped \/ changed)
       \/ /\ FramesInFlight < MaxInFlight
          /\ surface_texture' = surface_config
          /\ pc' = "textures"
          /\ UNCHANGED <<iter_skipped, change_skipped>>
    /\ UNCHANGED <<scene_vars, pending, frame, should_close, surface_config,
                   texture_vars, accumulator, input_vars, changed, encoder,
                   iter_log, iter_start, cam_changed,
                   last_frame, waited>>

\* ids of the textures alive on the host or referenced by queued work
TexIds(texs) == {t.id : t \in {x \in texs : x # NoneVal}}
UsedTexIds ==
    TexIds({output_texture, render_texture, accum_texture, accumulator})
        \cup UNION {pending[i].texs : i \in 1..Len(pending)}

\* device.create_texture: a texture distinct from every one in use
FreshTexId(used) ==
    CHOOSE i \in 1..(Cardinality(used) + 1) :
        i \notin used /\ \A j \in 1..(i - 1) : j \in used
CreateTexture(used, width, height) ==
    [id |-> FreshTexId(used), width |-> width, height |-> height]

\* variant: only a missing texture counts as a mismatch
SizeMismatchNoneOnly(texture, other) == texture = NoneVal

\* the condition of lines 758-762 and of lines 629-633
SizeMismatch(texture, other) ==
    \/ texture = NoneVal
    \/ texture.width # other.width
    \/ texture.height # other.height

\* lines 758-785: reallocate on mismatch, then create the command encoder
EnsureTextures ==
    /\ pc = "textures"
    /\ IF SizeMismatch(output_texture, surface_texture)
       THEN LET w == surface_texture.width
                h == surface_texture.height
                o == CreateTexture(UsedTexIds, w, h)
                r == CreateTexture(UsedTexIds \cup {o.id}, w, h)
                a == CreateTexture(UsedTexIds \cup {o.id, r.id}, w, h)
            IN  /\ output_texture' = o
                /\ render_texture' = r
                /\ accum_texture' = a
       ELSE UNCHANGED texture_vars
    /\ encoder' = <<>>
    /\ pc' = StepAfter("textures")
    /\ UNCHANGED <<scene_vars, pending, frame, should_close, surface_config,
                   surface_texture, accumulator, input_vars, changed,
                   history_vars>>

\* one recorded operation of a frame
Op(name, input, output, accum, f, reset) ==
    [op |-> name, input |-> input, output |-> output, accumulator |-> accum,
     frame |-> f, reset |-> reset]

\* lines 787, 588-611: PathTracer.execute
Trace ==
    /\ pc = "trace"
    /\ LET c == Op("trace", 0, render_texture.id, 0, frame, FALSE)
       IN  encoder' = Append(encoder, c) /\ iter_log' = Append(iter_log, c)
    /\ pc' = StepAfter("trace")
    /\ UNCHANGED <<scene_vars, pending, frame, should_close, surface_config,
                   surface_texture, texture_vars, accumulator, input_vars,
                   changed, iter_start, iter_skipped,
                   cam_changed, change_skipped, last_frame, waited>>

\* variant: every frame resets
ResetFlagAlways(f) == TRUE

\* line 789: the reset argument
ResetFlag(f) == f = 0

\* lines 788-790, 622-652: Accumulator.execute
Accumulate ==
    /\ pc = "accumulate"
    /\ LET acc == IF SizeMismatch(accumulator, render_texture)
                  THEN CreateTexture(UsedTexIds, render_texture.width,
                                     render_texture.height)
                  ELSE accumulator
           c == Op("accumulate", render_texture.id, accum_texture.id, acc.id,
                   frame, ResetFlag(frame))
       IN  /\ accumulator' = acc
           /\ encoder' = Append(encoder, c)
           /\ iter_log' = Append(iter_log, c)
    /\ pc' = StepAfter("accumulate")
    /\ UNCHANGED <<scene_vars, pending, frame, should_close, surface_config,
                   surface_texture, texture_vars, input_vars, changed,
                   iter_start, iter_skipped, cam_changed, change_skipped,
                   last_frame, waited>>

\* lines 791, 662-677: ToneMapper.execute
ToneMap ==
    /\ pc = "tonemap"
    /\ LET c == Op("tonemap", accum_texture.id, output_texture.id, 0, frame,
                   FALSE)
       IN  encoder' = Append(encoder, c) /\ iter_log' = Append(iter_log, c)
    /\ pc' = StepAfter("tonemap")
    /\ UNCHANGED <<scene_vars, pending, frame, should_close, surface_config,
                   surface_texture, texture_vars, accumulator, input_vars,
                   changed, iter_start, iter_skipped,
                   cam_changed, change_skipped, last_frame, waited>>

\* line 793: blit the tone-mapped texture to the surface image
Blit ==
    /\ pc = "blit"
    /\ LET c == Op("blit", output_texture.id, 0, 0, frame, FALSE)
       IN  encoder' = Append(encoder, c) /\ iter_log' = Append(iter_log, c)
    /\ pc' = StepAfter("blit")
    /\ UNCHANGED <<scene_vars, pending, frame, should_close, surface_config,
                   surface_texture, texture_vars, accumulator, input_vars,
                   changed, iter_start, iter_skipped,
                   cam_changed, change_skipped, last_frame, waited>>

\* textures a recorded command buffer reads or writes
EncoderTexs(cmds) ==
    UNION {{cmds[i].input, cmds[i].output, cmds[i].accumulator} :
              i \in 1..Len(cmds)} \ {0}

\* lines 794-795: submit the finished command buffer, drop the image
Submit ==
    /\ pc = "submit"
    /\ pending' = Append(pending, [kind |-> "frame", dst |-> 0,
                                   texs |-> EncoderTexs(encoder)])
    /\ surface_texture' = NoneVal
    /\ iter_log' = Append(iter_log, Op("submit", 0, 0, 0, frame, FALSE))
    /\ waited' = FALSE
    /\ pc' = StepAfter("submit")
    /\ UNCHANGED <<scene_vars, frame, should_close, surface_config,
                   texture_vars, accumulator, input_vars, changed, encoder,
                   iter_start, iter_skipped, cam_changed, change_skipped,
                   last_frame>>

\* line 797
Present ==
    /\ pc = "present"
    /\ iter_log' = Append(iter_log, Op("present", 0, 0, 0, frame, FALSE))
    /\ pc' = StepAfter("present")
    /\ UNCHANGED <<scene_vars, pending, frame, should_close, surface_config,
                   surface_texture, texture_vars, accumulator, input_vars,
                   changed, encoder, iter_start, iter_skipped,
                   cam_changed, change_skipped, last_frame, waited>>

\* variant: the counter advances by two
NextFrameByTwo(f) == f + 2

\* line 799
NextFrame(f) == f + 1

\* line 799
IncFrame ==
    /\ pc = "inc"
    /\ frame' = NextFrame(frame)
    /\ pc' = StepAfter("inc")
    /\ UNCHANGED <<scene_vars, pending, should_close, surface_config,
                   surface_texture, texture_vars, accumulator, input_vars,
                   changed, encoder, history_vars>>

\* ------------------------------------------------------------ App state
\* lines 703-704: the Scene built from a stage without invalid ids
BuiltScene(st) ==
    LET scan == ScanMeshDescs(st.meshes, 1, 0, 0, <<>>)
        descs == MakeInstanceDescs(st.instances)
        bl == [k \in 1..Len(st.meshes) |-> k]
        list == [i \in 1..Len(descs) |->
                    TlasInstanceRecord(i - 1, descs[i], st.transforms, bl)]
    IN  [mesh_descs |-> scan.descs, instance_descs |-> descs,
         vertex_buffer |-> [rows |-> scan.vertex_count],
         index_buffer |-> [rows |-> scan.index_count \div 3],
         transforms |-> st.transforms, blases |-> bl, instance_list |-> list,
         tlas |-> [handle |-> Len(bl) + 1, instances |-> list],
         builds |-> [k \in 1..(Len(bl) + 1) |->
                       BuildCmd(IF k <= Len(bl) THEN "blas" ELSE "tlas", k)]]

\* App.__init__ has returned: the demo scene is built, its builds are
\* submitted and the device has retired some prefix of them
Init ==
    /\ stage = DemoStage
    /\ scene_pc = "done"
    /\ scene_error = "none"
    /\ LET b == BuiltScene(DemoStage)
       IN  /\ mesh_descs = b.mesh_descs
           /\ instance_descs = b.instance_descs
           /\ vertex_buffer = b.vertex_buffer
           /\ index_buffer = b.index_buffer
           /\ transforms = b.transforms
           /\ blases = b.blases
           /\ instance_list = b.instance_list
           /\ next_instance = Len(b.instance_list)
           /\ tlas_calls = 1
           /\ tlas = b.tlas
           /\ rebuilt = NoneVal
           /\ next_handle = Len(b.blases) + 2
           /\ \E n \in 0..Len(b.builds) :
                 pending = SubSeq(b.builds, n + 1, Len(b.builds))
    /\ LoopIdle

Next ==
    \/ \E e \in KeyEvents : OnKeyboardEvent(e)
    \/ \E e \in MouseEvents : OnMouseEvent(e)
    \/ \E e \in ResizeEvents : OnResize(e[1], e[2])
    \/ LoopEnter
    \/ LoopExit
    \/ ProcessEventsDone
    \/ CameraUpdate
    \/ CheckConfig
    \/ AcquireImage
    \/ EnsureTextures
    \/ Trace
    \/ Accumulate
    \/ ToneMap
    \/ Blit
    \/ Submit
    \/ Present
    \/ IncFrame
    \/ GpuComplete

Spec == Init /\ [][Next]_vars

\* ================================================================ claims
\* operations of the current iteration, by name
LogOps == [i \in 1..Len(iter_log) |-> iter_log[i].op]
Issued(name) == \E i \in 1..Len(iter_log) : iter_log[i].op = name
IssuedOp(name) ==
    iter_log[CHOOSE i \in 1..Len(iter_log) : iter_log[i].op = name]
FrameOps == <<"trace", "accumulate", "tonemap", "blit", "submit", "present">>

\* the iteration replaced already allocated intermediate textures
Resized ==
    /\ iter_start.output_texture # NoneVal
    /\ output_texture # iter_start.output_texture

\* the persistent accumulation buffer did not fit the trace output when the
\* iteration began
AccumulatorMismatch ==
    \/ iter_start.accumulator = NoneVal
    \/ iter_start.accumulator.width # render_texture.width
    \/ iter_start.accumulator.height # render_texture.height

\* C1: in a frame whose intermediate textures were reallocated because the
\* surface image's size differs from the allocated size, Accumulate is
\* issued with reset = true, whether or not the camera moved.
C1_ResizeForcesReset ==
    (Issued("accumulate") /\ Resized) => IssuedOp("accumulate").reset

\* C2: the reset flag passed to Accumulator.execute is true only if the
\* camera changed since the previous rendered frame or the accumulation
\* buffer did not match the trace output (no buffer yet included); a frame
\* with unchanged camera and matching buffer passes reset = false and keeps
\* the Accumulator's persistent texture.
C2_ResetOnlyWhenNeeded ==
    Issued("accumulate") =>
        LET a == IssuedOp("accumulate")
        IN  /\ a.reset => (cam_changed \/ AccumulatorMismatch)
            /\ (~cam_changed /\ ~AccumulatorMismatch) =>
                  /\ ~a.reset
                  /\ accumulator = iter_start.accumulator
                  /\ a.accumulator = iter_start.accumulator.id

C2_Witness ==
    /\ Issued("accumulate")
    /\ ~cam_changed
    /\ ~AccumulatorMismatch
    /\ ~IssuedOp("accumulate").reset
    /\ last_frame >= 0

\* C3: in a rendered frame whose iteration saw CameraController.update
\* return changed, the tracer is given frame 0 and the accumulator
\* reset = true.
C3_CameraMotionReset ==
    /\ (Issued("trace") /\ changed) => IssuedOp("trace").frame = 0
    /\ (Issued("accumulate") /\ changed) => IssuedOp("accumulate").reset

C3_Witness ==
    /\ changed
    /\ Issued("accumulate")
    /\ IssuedOp("accumulate").reset
    /\ last_frame >= 1

\* the three intermediate textures exist with the size of the surface image
TexturesMatchSurface ==
    \A t \in {render_texture, accum_texture, output_texture} :
        /\ t # NoneVal
        /\ t.width = surface_texture.width
        /\ t.height = surface_texture.height

\* C4: when the passes of a frame are issued, the raw trace texture, the
\* accumulation output texture and the tone-mapped texture exist with the
\* width and height of the acquired surface image; the three are recreated
\* together exactly in the frames whose surface image differs in size from
\* the allocated textures (or nothing is allocated), and are kept otherwise.
C4_TexturesMatchSurface ==
    pc \in {"trace", "accumulate", "tonemap", "blit", "submit"} =>
        /\ TexturesMatchSurface
        /\ Cardinality({render_texture.id, accum_texture.id,
                        output_texture.id}) = 3
        /\ IF \/ iter_start.output_texture = NoneVal
              \/ iter_start.output_texture.width # surface_texture.width
              \/ iter_start.output_texture.height # surface_texture.height
           THEN {render_texture, accum_texture, output_texture}
                   \cap {iter_start.render_texture, iter_start.accum_texture,
                         iter_start.output_texture} = {}
           ELSE /\ render_texture = iter_start.render_texture
                /\ accum_texture = iter_start.accum_texture
                /\ output_texture = iter_start.output_texture

C4_Witness ==
    /\ pc = "trace"
    /\ Resized
    /\ TexturesMatchSurface

\* s is an initial segment of t
IsPrefix(s, t) == Len(s) <= Len(t) /\ s = SubSeq(t, 1, Len(s))

\* C7: every iteration of main_loop issues either exactly trace,
\* accumulate, tone-map, blit, submit, present, in this order and once each,
\* or none of them.
C7_AllOrNothingFrame ==
    /\ IsPrefix(LogOps, FrameOps)
    /\ pc = "loop" => LogOps \in {<<>>, FrameOps}
    /\ iter_skipped => LogOps = <<>>

C7_Witness ==
    /\ pc = "loop"
    /\ LogOps = FrameOps
    /\ Len(iter_log) = 6
    /\ last_frame >= 0

\* a skipped iteration issued nothing and left textures and scene alone
SkipLeavesAllUntouched ==
    iter_skipped =>
        /\ pc \in {"loop", "done"}
        /\ iter_log = <<>>
        /\ Snapshot = iter_start
        /\ scene_pc = "done"
        /\ blases = BuiltScene(stage).blases
        /\ tlas = BuiltScene(stage).tlas

\* an unconfigured surface never gets past the configuration check, and a
\* configured surface always has a positive size
UnconfiguredNeverRenders ==
    /\ surface_config = NoneVal =>
          pc \in {"loop", "events", "update", "config", "done"}
    /\ surface_config # NoneVal =>
          surface_config.width > 0 /\ surface_config.height > 0
    /\ pc \in {"textures", "trace", "accumulate", "tonemap", "blit"} =>
          surface_texture # NoneVal

\* whatever happened in earlier iterations, a configured surface passes the
\* configuration check and an acquired image starts the frame
RendersWhenAvailable ==
    /\ (pc = "config" /\ pc' # pc /\ surface_config # NoneVal)
          => pc' = "acquire"
    /\ (pc = "acquire" /\ pc' # pc /\ surface_texture' # NoneVal)
          => pc' = "textures"
    /\ (pc = "inc" /\ pc' # pc) => (pc' = "loop" /\ LogOps' = FrameOps)

\* C8: in an iteration where the surface is unconfigured (resized to zero
\* width or height) or no image is acquired, no pass is issued, nothing is
\* submitted or presented, and scene, pipeline objects and allocated
\* textures stay untouched; once the surface is configured again with a
\* positive size the following iterations render normally.
C8_SurfaceLossSkipsFrame ==
    /\ [](SkipLeavesAllUntouched /\ UnconfiguredNeverRenders)
    /\ [][RendersWhenAvailable]_vars

C8_Witness ==
    /\ pc = "loop"
    /\ iter_skipped
    /\ surface_config = NoneVal
    /\ output_texture # NoneVal
    /\ accumulator # NoneVal

\* C9: whenever main_loop replaces the intermediate textures, no work
\* submitted earlier that uses the old textures is outstanding; the
\* replacement happens before the first pass of the frame and after a
\* device wait that follows the last submission.
C9_NoReallocUnderInFlightWork ==
    [][texture_vars' # texture_vars =>
          /\ pc = "textures"
          /\ iter_log = <<>>
          /\ output_texture # NoneVal =>
                /\ waited
                /\ \A i \in 1..Len(pending) :
                      pending[i].texs
                         \cap TexIds({output_texture, render_texture,
                                      accum_texture}) = {}]_vars

C9_Witness ==
    /\ pc = "trace"
    /\ Resized
    /\ waited
    /\ last_frame >= 0

\* the frame value of a rendered frame continues the coherent sequence
TracedFrameContinues ==
    Issued("trace") =>
        LET t == IssuedOp("trace").frame
        IN  /\ (last_frame = -1) => t = 0
            /\ (last_frame >= 0 /\ ~cam_changed) => t = last_frame + 1

\* the counter moves up by one, or to 0 on a camera change
CounterStep ==
    frame' # frame => \/ frame' = frame + 1
                      \/ frame' = 0 /\ changed'

\* C10: the frame counter starts at 0; across consecutive rendered frames
\* without a camera change the frame value passed to the tracer increases by
\* exactly 1 per rendered frame; the counter never decreases except by
\* being set to 0 on a camera change.
C10_FrameCounterLaw ==
    /\ frame = 0
    /\ []TracedFrameContinues
    /\ [][CounterStep]_vars

C10_Witness ==
    /\ Issued("trace")
    /\ ~cam_changed
    /\ last_frame = 1
    /\ IssuedOp("trace").frame = 2

\* ------------------------------------------------- Scene construction
\* id is a zero-based index into a sequence of n entries
ValidId(id, n) == id >= 0 /\ id < n

\* some instance of the stage refers outside its mesh, material or
\* transform sequence
HasInvalidReference(st) ==
    \E i \in 1..Len(st.instances) :
        \/ ~ValidId(st.instances[i][1], Len(st.meshes))
        \/ ~ValidId(st.instances[i][2], st.materials)
        \/ ~ValidId(st.instances[i][3], Len(st.transforms))

BuildSubmitted(kind) == \E i \in 1..Len(pending) : pending[i].kind = kind

\* slots of the instance list that hold a record
RecordsWritten ==
    {i \in 1..Len(instance_list) : instance_list[i] # NoneVal}

\* C5: if an instance's mesh, material or transform id is outside the valid
\* index range, Scene construction fails, and it fails before any
\* bottom-level or top-level acceleration-structure build is started.
C5_InvalidReferencesRejected ==
    HasInvalidReference(stage) =>
        /\ scene_pc # "done"
        /\ blases = <<>>
        /\ tlas = NoneVal
        /\ pending = <<>>

RECURSIVE VerticesBefore(_)
VerticesBefore(k) ==
    IF k = 1 THEN 0
    ELSE VerticesBefore(k - 1) + stage.meshes[k - 1].vertex_rows

RECURSIVE IndicesBefore(_)
IndicesBefore(k) ==
    IF k = 1 THEN 0
    ELSE IndicesBefore(k - 1) + 3 * stage.meshes[k - 1].index_rows

\* the sub-ranges [offset, offset + count) a descriptor selects
VertexRange(d) == d.vertex_offset .. (d.vertex_offset + d.vertex_count - 1)
IndexRange(d) == d.index_offset .. (d.index_offset + d.index_count - 1)

\* number of uint32 indices held by the index buffer (rows of three)
IndexBufferLength == index_buffer.rows * 3

\* C11: the k-th mesh descriptor has vertex_offset equal to the sum of the
\* vertex counts of meshes 0..k-1 and index_offset equal to the sum of their
\* index counts (3 x triangle count), in mesh order; the sub-ranges
\* [offset, offset + count) of distinct meshes are disjoint and lie inside
\* the shared vertex and index buffers.
C11_OffsetsArePrefixSums ==
    scene_pc \notin {"descs"} =>
        /\ Len(mesh_descs) = Len(stage.meshes)
        /\ \A k \in 1..Len(mesh_descs) :
              /\ mesh_descs[k].vertex_offset = VerticesBefore(k)
              /\ mesh_descs[k].index_offset = IndicesBefore(k)
              /\ mesh_descs[k].vertex_count = stage.meshes[k].vertex_rows
              /\ mesh_descs[k].index_count = 3 * stage.meshes[k].index_rows
        /\ \A j \in 1..Len(mesh_descs) : \A k \in 1..Len(mesh_descs) :
              j # k =>
                 /\ VertexRange(mesh_descs[j]) \cap VertexRange(mesh_descs[k])
                       = {}
                 /\ IndexRange(mesh_descs[j]) \cap IndexRange(mesh_descs[k])
                       = {}
        /\ vertex_buffer # NoneVal =>
              \A k \in 1..Len(mesh_descs) :
                 /\ VertexRange(mesh_descs[k])
                       \subseteq 0..(vertex_buffer.rows - 1)
                 /\ IndexRange(mesh_descs[k])
                       \subseteq 0..(IndexBufferLength - 1)

C11_Witness ==
    /\ vertex_buffer # NoneVal
    /\ Len(mesh_descs) = 2
    /\ mesh_descs[2].vertex_offset = 24
    /\ mesh_descs[2].index_offset = 36
    /\ Len(blases) = 2

\* sums over the mesh descriptors
RECURSIVE DescVertexTotal(_)
DescVertexTotal(n) ==
    IF n = 0 THEN 0 ELSE DescVertexTotal(n - 1) + mesh_descs[n].vertex_count

RECURSIVE DescIndexTotal(_)
DescIndexTotal(n) ==
    IF n = 0 THEN 0 ELSE DescIndexTotal(n - 1) + mesh_descs[n].index_count

\* C12: the sum of the descriptors' vertex_count equals the number of vertex
\* records of the concatenated vertex buffer and the sum of their
\* index_count equals the number of indices of the concatenated index
\* buffer; the two assertions of Scene.__init__ never fail.
C12_BufferTotalsMatch ==
    /\ scene_error # "AssertionError"
    /\ vertex_buffer # NoneVal =>
          /\ index_buffer # NoneVal
          /\ DescVertexTotal(Len(mesh_descs)) = vertex_buffer.rows
          /\ DescIndexTotal(Len(mesh_descs)) = IndexBufferLength

C12_Witness ==
    /\ scene_pc = "transforms"
    /\ stage.meshes = <<CubeMesh, QuadMesh>>
    /\ vertex_buffer.rows = 28
    /\ IndexBufferLength = 42

\* ------------------------------------------------- instance records
\* the record expected in slot i (one-based) of an instance list
ExpectedRecord(i) ==
    LET inst == stage.instances[i]
        m == stage.transforms[inst[3] + 1]
    IN  [transform |-> <<m[1], m[2], m[3]>>,
         instance_id |-> i - 1,
         instance_mask |-> 255,
         instance_contribution_to_hit_group_index |-> 0,
         acceleration_structure |-> blases[inst[1] + 1]]

\* C13: build_tlas writes exactly one record per instance, at slot i for
\* instance i, with instance_id = i, mask 0xFF, the 3x4 form of the
\* transform selected by the instance's transform id and the handle of the
\* BLAS at position mesh_id of the per-mesh BLAS list, which holds one BLAS
\* per mesh descriptor in mesh order.
C13_InstanceRecords ==
    /\ RecordsWritten = 1..next_instance
    /\ RecordsWritten # {} =>
          /\ Len(instance_list) = Len(stage.instances)
          /\ Len(blases) = Len(stage.meshes)
          /\ \A j \in 1..Len(blases) : \A k \in 1..Len(blases) :
                j < k => blases[j] < blases[k]
          /\ \A i \in RecordsWritten : instance_list[i] = ExpectedRecord(i)
    /\ scene_pc = "done" =>
          /\ RecordsWritten = 1..Len(stage.instances)
          /\ tlas.instances = instance_list

C13_Witness ==
    /\ scene_pc = "done"
    /\ tlas_calls = 1
    /\ Len(tlas.instances) = 2
    /\ tlas.instances[1].instance_id = 0
    /\ tlas.instances[2].instance_id = 1
    /\ tlas.instances[1].acceleration_structure
          # tlas.instances[2].acceleration_structure
    /\ stage.instances[1][3] = 1
    /\ tlas.instances[1].transform # tlas.instances[2].transform

\* ------------------------------------------------- end-to-end scenario
\* one quad and one cube, one instance of each at the identity transform
QuadAndCubeStage ==
    MakeStage(<<QuadMesh, CubeMesh>>, << <<0, 0, 0>>, <<1, 0, 0>> >>)

\* C14 as stated: the scene built from one quad (2 triangles, 4 vertices)
\* and one cube (12 triangles, 24 vertices) with one instance of each has a
\* vertex buffer of 28 records, an index buffer of 90 indices (30 triangles),
\* 2 BLASes and 2 instance records.
C14_EndToEndAsStated ==
    (stage = QuadAndCubeStage /\ scene_pc = "done") =>
        /\ vertex_buffer.rows = 28
        /\ IndexBufferLength = 90
        /\ Len(blases) = 2
        /\ Cardinality(RecordsWritten) = 2

\* C14 amended: the scene built from one quad and one cube with one
\* instance of each at the identity transform is constructed without error
\* and has a vertex buffer of 28 records, an index buffer of 42 indices
\* (14 triangles x 3), exactly 2 BLASes and exactly 2 instance records.
C14_EndToEnd ==
    stage = QuadAndCubeStage =>
        /\ scene_error = "none"
        /\ scene_pc = "done" =>
              /\ vertex_buffer.rows = 28
              /\ index_buffer.rows = 14
              /\ IndexBufferLength = 42
              /\ Len(blases) = 2
              /\ Len(tlas.instances) = 2
              /\ Cardinality(RecordsWritten) = 2
              /\ \A i \in 1..2 :
                    tlas.instances[i].transform = Float3x4(TransformMatrix(0))

C14_Witness ==
    /\ stage = QuadAndCubeStage
    /\ scene_pc = "done"
    /\ tlas_calls = 1
    /\ pending = <<>>

\* ------------------------------------------------- rebuilding the TLAS
\* a step taken after build_tlas has been called again leaves the
\* descriptors, transforms and BLASes of the Scene as they were
RebuildKeepsScene ==
    tlas_calls' > 1 =>
        UNCHANGED <<mesh_descs, instance_descs, transforms, blases,
                    vertex_buffer, index_buffer>>

\* C15: calling build_tlas twice on an unchanged Scene writes the same
\* instance list both times (same instance-to-BLAS mapping, ids, masks and
\* transforms) and changes none of the Scene's descriptors, transforms or
\* BLASes.
C15_RebuildIdempotent ==
    /\ [](rebuilt # NoneVal => rebuilt.instances = tlas.instances)
    /\ [][RebuildKeepsScene]_vars

C15_Witness ==
    /\ rebuilt # NoneVal
    /\ tlas_calls = 2
    /\ Len(rebuilt.instances) = 2
    /\ rebuilt.handle # tlas.handle
    /\ rebuilt.instances[1].acceleration_structure
          # rebuilt.instances[2].acceleration_structure

\* ------------------------------------------------- skipped camera change
\* the iteration that is running, or has just ended, rendered a frame
FrameRendered == pc \in {"loop", "done"} /\ iter_log # <<>>

\* after a camera change in a skipped iteration the counter is 0 until a
\* frame has been rendered, and that frame is traced and accumulated afresh
SkippedChangeKept ==
    change_skipped =>
        /\ ~FrameRendered => frame = 0
        /\ Issued("trace") => IssuedOp("trace").frame = 0
        /\ Issued("accumulate") => IssuedOp("accumulate").reset

\* the step that skips the frame leaves the counter alone
SkipKeepsCounter == (iter_skipped' /\ ~iter_skipped) => frame' = frame

\* C16: if CameraController.update reports a change in an iteration whose
\* frame is skipped (surface unconfigured or no image), the frame counter
\* stays 0 through all skipped iterations, is not incremented by them, and
\* the next frame that is rendered is traced with frame 0 and accumulated
\* with reset = true.
C16_SkippedChangeNotLost ==
    /\ []SkippedChangeKept
    /\ [][SkipKeepsCounter]_vars

C16_Witness ==
    /\ change_skipped
    /\ ~changed
    /\ last_frame >= 1
    /\ Issued("accumulate")
    /\ IssuedOp("accumulate").reset
    /\ IssuedOp("trace").frame = 0

====
